---------------------------- MODULE Spec2Model ----------------------------
(***************************************************************************)
(* Model of src/pages/index.tsx: the Home component, its SWR-backed        *)
(* customer list (fetcher + useSWR) and the Add Customer dialog            *)
(* (handleAddCustomer).                                                    *)
(*                                                                         *)
(* JavaScript runs the component on one thread: an event handler or a      *)
(* promise continuation runs to its next await without interleaving, so    *)
(* one action below is one such run.  A response's body is delivered       *)
(* together with its status: the `await res.json()` that follows a         *)
(* response changes no state of the component.                             *)
(***************************************************************************)
EXTENDS Naturals, Sequences, FiniteSets, Bags, TLC

(* ------------------------------ bounds -------------------------------- *)

\* At most this many handleAddCustomer calls are suspended at one time.
MaxInFlight == 2

(* --------------------------- JavaScript values ------------------------ *)

Undefined == [t |-> "undefined"]

Str(s) == [t |-> "string", v |-> s]

\* A JSON object whose properties are strings: f is a function from keys.
Obj(f) == [t |-> "object", f |-> f]

Arr(items) == [t |-> "array", items |-> items]

\* An Error instance (new Error(m), or the SyntaxError / TypeError the
\* platform raises).
Err(m) == [t |-> "error", message |-> m]

\* A response body that is not JSON.
NotJson == [t |-> "notjson"]

\* JavaScript truthiness of the values above: "" and undefined are falsy,
\* every object (an empty array included) is truthy.
Truthy(v) ==
    CASE v.t = "undefined" -> FALSE
      [] v.t = "string"    -> v.v # ""
      [] OTHER             -> TRUE

\* v.message
Message(v) ==
    CASE v.t = "error" -> Str(v.message)
      [] v.t = "object" /\ "message" \in DOMAIN v.f -> Str(v.f["message"])
      [] OTHER -> Undefined

\* a || b
Or(a, b) == IF Truthy(a) THEN a ELSE b

\* `${v}` in a template literal
Template(v) ==
    CASE v.t = "string"    -> v.v
      [] v.t = "undefined" -> "undefined"
      [] OTHER             -> "[object]"

\* JSON.stringify of an object of strings: a property whose value is
\* undefined is left out, every other one is written as it is.  The result
\* is the function from the keys written to their string values.
JSONStringify(obj) ==
    [k \in {x \in DOMAIN obj : obj[x].t # "undefined"} |-> obj[k].v]

(* ------------------------------ the server ---------------------------- *)

Ann == [firstName |-> "Ann", lastName |-> "Lee", email |-> "ann@x.com"]

DbDown == Obj([code |-> "internal_error", message |-> "db down"])

\* What fetch() settles with: it rejects (the request never completed), or
\* it resolves to a response with a status class and a body.
Rejected == [rejected |-> TRUE, ok |-> FALSE, body |-> NotJson]

Response(ok, body) == [rejected |-> FALSE, ok |-> ok, body |-> body]

NoResponse == [rejected |-> FALSE, ok |-> FALSE, body |-> Undefined]

\* GET /api/customers: 200 with an array of customers, a non-2xx with
\* {code, message}, a non-2xx whose body is not JSON, or no response.
GetOutcomes ==
    { Response(TRUE, Arr(<<Ann>>)),
      Response(FALSE, DbDown),
      Response(FALSE, NotJson),
      Rejected }

\* POST /api/customers: 2xx (the body is not read), a non-2xx with a JSON
\* object that has a message, an empty message or none, a non-2xx whose
\* body is not JSON, or no response.
PostOutcomes ==
    { Response(TRUE, Obj([email |-> "a"])),
      Response(FALSE, Obj([message |-> "email already exists"])),
      Response(FALSE, Obj([message |-> ""])),
      Response(FALSE, Obj([code |-> "bad_request"])),
      Response(FALSE, NotJson),
      Rejected }

\* What the user can type into a text field.
FieldValues == {"", "a"}

BusinessValues == {"", "b"}

(* ------------------------------- state -------------------------------- *)

VARIABLES
    firstName, lastName, email, businessName,  \* the four useState drafts
    open,           \* useState(false): whether the dialog is shown
    data, error,    \* what useSWR returns to the render
    keepStale,      \* the cache's policy when a revalidation fails
    loadPending,    \* the first GET /api/customers is outstanding
    revalidating,   \* handleAddCustomer calls suspended at `await mutate()`,
                    \* each with its own GET /api/customers outstanding
    posting,        \* bag of the handleAddCustomer calls suspended at
                    \* `await fetch(POST)`: [closure, body]
    ev              \* the event that led to this state (history)

vars == <<firstName, lastName, email, businessName, open, data, error,
          keepStale, loadPending, revalidating, posting, ev>>

Draft == [firstName |-> firstName, lastName |-> lastName, email |-> email,
          businessName |-> businessName]

EmptyDraft == [firstName |-> "", lastName |-> "", email |-> "",
               businessName |-> ""]

\* closed: how many times handleAddCustomer called setOpen(false) in the
\* step.
Event(kind, resp, alert, closed) ==
    [kind |-> kind, resp |-> resp, alert |-> alert, closed |-> closed]

UiEvent(kind, closed) == Event(kind, NoResponse, "", closed)

(* ---------------------------- the list fetch -------------------------- *)

Returned(v) == [threw |-> FALSE, value |-> v]

Thrown(v) == [threw |-> TRUE, value |-> v]

\* response.json(): the parsed body, or a SyntaxError.
ResponseJson(resp) ==
    IF resp.body.t = "notjson"
    THEN Thrown(Err("Unexpected token < in JSON at position 0"))
    ELSE Returned(resp.body)

\* Faulty variant of fetcher: the `if (!response.ok) throw body` is missing.
fetcherNoOkCheck(resp) ==
    IF resp.rejected THEN Thrown(Err("Failed to fetch"))
    ELSE ResponseJson(resp)

\* Faulty variant of fetcher: the test of response.ok is inverted.
fetcherInvertedOk(resp) ==
    IF resp.rejected THEN Thrown(Err("Failed to fetch"))
    ELSE LET body == ResponseJson(resp)
         IN  IF body.threw THEN body
             ELSE IF resp.ok THEN Thrown(body.value)
             ELSE Returned(body.value)

\* fetcher(url), given what fetch(url) settles with.
fetcher(resp) ==
    IF resp.rejected THEN Thrown(Err("Failed to fetch"))
    ELSE LET body == ResponseJson(resp)
         IN  IF body.threw THEN body
             ELSE IF ~resp.ok THEN Thrown(body.value)
             ELSE Returned(body.value)

\* What useSWR returns after a fetch settled with r: a value replaces the
\* data and clears the error; an error is kept as the error, and the data
\* loaded before is kept or dropped by the cache's policy.
SWRSettle(r, d, keep) ==
    IF r.threw
    THEN [data |-> IF keep THEN d ELSE Undefined, error |-> r.value]
    ELSE [data |-> r.value, error |-> Undefined]

\* What the promise of mutate() settles with when its fetch settled with
\* r: the fetched value, or the fetch's error.
MutateSettle(r) == r

(* --------------------------- handleAddCustomer ------------------------ *)

\* Faulty variant of NewCustomer: businessName is passed on as typed.
NewCustomerKeepsEmpty(fn, ln, em, bn) ==
    [firstName |-> Str(fn), lastName |-> Str(ln), email |-> Str(em),
     businessName |-> Str(bn)]

NewCustomer(fn, ln, em, bn) ==
    [firstName |-> Str(fn), lastName |-> Str(ln), email |-> Str(em),
     businessName |-> IF Truthy(Str(bn)) THEN Str(bn) ELSE Undefined]

\* The body of the POST request.
RequestBody(d) ==
    JSONStringify(NewCustomer(d.firstName, d.lastName, d.email,
                              d.businessName))

\* Faulty variant of PostThrown: res.ok is not tested.
PostThrownNoOkCheck(resp) ==
    IF resp.rejected THEN Thrown(Err("Failed to fetch"))
    ELSE Returned(Undefined)

\* Faulty variant of PostThrown: the body's message is not used.
PostThrownFallbackOnly(resp) ==
    IF resp.rejected THEN Thrown(Err("Failed to fetch"))
    ELSE IF ~resp.ok
    THEN LET errorData == ResponseJson(resp)
         IN  IF errorData.threw THEN errorData
             ELSE Thrown(Err("Failed to add customer"))
    ELSE Returned(Undefined)

\* The try block from `await fetch` up to mutate(): what it throws, given
\* what the POST settles with.
PostThrown(resp) ==
    IF resp.rejected THEN Thrown(Err("Failed to fetch"))
    ELSE IF ~resp.ok
    THEN LET errorData == ResponseJson(resp)
         IN  IF errorData.threw THEN errorData
             ELSE Thrown(Err(Template(Or(Message(errorData.value),
                                         Str("Failed to add customer")))))
    ELSE Returned(Undefined)

\* catch (error): the text of the alert.
AlertText(e) == "Error: " \o Template(Message(e))

\* Faulty variant of AfterMutate: setBusinessName('') is missing.
AfterMutateKeepsBusinessName(m, d, isOpen) ==
    IF m.threw
    THEN [draft |-> d, open |-> isOpen, alert |-> AlertText(m.value),
          closed |-> 0]
    ELSE [draft |-> [EmptyDraft EXCEPT !.businessName = d.businessName],
          open |-> FALSE, alert |-> "", closed |-> 1]

\* Faulty variant of AfterMutate: the reset runs after the catch as well.
AfterMutateFinally(m, d, isOpen) ==
    [draft |-> EmptyDraft, open |-> FALSE,
     alert |-> IF m.threw THEN AlertText(m.value) ELSE "", closed |-> 1]

\* The handler from `await mutate()` to its end, given what mutate()
\* settled with, the drafts and the dialog's state: the new drafts and
\* dialog state, the alert shown and the number of setOpen(false) calls.
AfterMutate(m, d, isOpen) ==
    IF m.threw
    THEN [draft |-> d, open |-> isOpen, alert |-> AlertText(m.value),
          closed |-> 0]
    ELSE [draft |-> EmptyDraft, open |-> FALSE, alert |-> "", closed |-> 1]

InFlight == BagCardinality(posting) + revalidating

(* ------------------------------- actions ------------------------------ *)

Init ==
    /\ firstName = "" /\ lastName = "" /\ email = "" /\ businessName = ""
    /\ open = FALSE
    /\ data = Undefined /\ error = Undefined
    /\ keepStale \in BOOLEAN
    /\ loadPending = TRUE
    /\ revalidating = 0
    /\ posting = EmptyBag
    /\ ev = UiEvent("ui", 0)

\* The first GET /api/customers settles.
LoadSettled(resp) ==
    /\ loadPending
    /\ LET s == SWRSettle(fetcher(resp), data, keepStale)
       IN  data' = s.data /\ error' = s.error
    /\ loadPending' = FALSE
    /\ ev' = Event("loaded", resp, "", 0)
    /\ UNCHANGED <<firstName, lastName, email, businessName, open, keepStale,
                   revalidating, posting>>

\* The Add Customer button, rendered with the table.
OpenDialog ==
    /\ Truthy(data)
    /\ open' = TRUE
    /\ ev' = UiEvent("ui", 0)
    /\ UNCHANGED <<firstName, lastName, email, businessName, data, error,
                   keepStale, loadPending, revalidating, posting>>

setFirstName(v) ==
    /\ open
    /\ firstName' = v
    /\ ev' = UiEvent("ui", 0)
    /\ UNCHANGED <<lastName, email, businessName, open, data, error,
                   keepStale, loadPending, revalidating, posting>>

setLastName(v) ==
    /\ open
    /\ lastName' = v
    /\ ev' = UiEvent("ui", 0)
    /\ UNCHANGED <<firstName, email, businessName, open, data, error,
                   keepStale, loadPending, revalidating, posting>>

setEmail(v) ==
    /\ open
    /\ email' = v
    /\ ev' = UiEvent("ui", 0)
    /\ UNCHANGED <<firstName, lastName, businessName, open, data, error,
                   keepStale, loadPending, revalidating, posting>>

setBusinessName(v) ==
    /\ open
    /\ businessName' = v
    /\ ev' = UiEvent("ui", 0)
    /\ UNCHANGED <<firstName, lastName, email, open, data, error,
                   keepStale, loadPending, revalidating, posting>>

\* The Cancel button.
Cancel ==
    /\ open
    /\ open' = FALSE
    /\ ev' = UiEvent("ui", 0)
    /\ UNCHANGED <<firstName, lastName, email, businessName, data, error,
                   keepStale, loadPending, revalidating, posting>>

\* The dialog's onClose (Escape, a click on the backdrop).
DialogOnClose ==
    /\ open
    /\ open' = FALSE
    /\ ev' = UiEvent("ui", 0)
    /\ UNCHANGED <<firstName, lastName, email, businessName, data, error,
                   keepStale, loadPending, revalidating, posting>>

\* The Create button: handleAddCustomer runs to `await fetch(POST)`.
handleAddCustomer ==
    /\ open
    /\ InFlight < MaxInFlight
    /\ posting' = posting (+) SetToBag({[closure |-> Draft,
                                         body |-> RequestBody(Draft)]})
    /\ ev' = UiEvent("ui", 0)
    /\ UNCHANGED <<firstName, lastName, email, businessName, open, data,
                   error, keepStale, loadPending, revalidating>>

\* A POST settles and its handler h resumes: it throws to its catch, or it
\* calls mutate(), which starts a fresh GET /api/customers whatever is
\* outstanding, and awaits it.
PostSettled(h, resp) ==
    /\ BagIn(h, posting)
    /\ posting' = posting (-) SetToBag({h})
    /\ LET t == PostThrown(resp)
       IN  IF t.threw
           THEN /\ ev' = Event("postFailed", resp, AlertText(t.value), 0)
                /\ UNCHANGED revalidating
           ELSE /\ ev' = Event("postOk", resp, "", 0)
                /\ revalidating' = revalidating + 1
    /\ UNCHANGED <<firstName, lastName, email, businessName, open, data,
                   error, keepStale, loadPending>>

\* The GET of a mutate() settles: useSWR takes the result, and the handler
\* that awaited mutate() runs to its end.
RevalidateSettled(resp) ==
    /\ revalidating > 0
    /\ revalidating' = revalidating - 1
    /\ LET r == fetcher(resp)
           s == SWRSettle(r, data, keepStale)
           a == AfterMutate(MutateSettle(r), Draft, open)
       IN  /\ data' = s.data /\ error' = s.error
           /\ firstName' = a.draft.firstName
           /\ lastName' = a.draft.lastName
           /\ email' = a.draft.email
           /\ businessName' = a.draft.businessName
           /\ open' = a.open
           /\ ev' = Event(IF MutateSettle(r).threw THEN "mutateFailed"
                                                      ELSE "submitted",
                          resp, a.alert, a.closed)
    /\ UNCHANGED <<keepStale, loadPending, posting>>

Next ==
    \/ \E resp \in GetOutcomes : LoadSettled(resp)
    \/ OpenDialog
    \/ \E v \in FieldValues : setFirstName(v)
    \/ \E v \in FieldValues : setLastName(v)
    \/ \E v \in FieldValues : setEmail(v)
    \/ \E v \in BusinessValues : setBusinessName(v)
    \/ Cancel
    \/ DialogOnClose
    \/ handleAddCustomer
    \/ \E h \in BagToSet(posting), resp \in PostOutcomes : PostSettled(h, resp)
    \/ \E resp \in GetOutcomes : RevalidateSettled(resp)

Spec == Init /\ [][Next]_vars

(* ------------------------------- claims ------------------------------- *)

\* The step is the settling of a POST: one suspended handler left posting.
PostSettles == BagCardinality(posting') < BagCardinality(posting)

\* The step is the settling of a mutate(): a handler left `await mutate()`.
MutateSettles == revalidating' < revalidating

\* The step is a call of handleAddCustomer by which handler h was suspended.
Submits(h) == CopiesIn(h, posting') > CopiesIn(h, posting)

\* The handler h whose POST settles in the step.
Resumes(h) == CopiesIn(h, posting') < CopiesIn(h, posting)

BodyKeys == {"firstName", "lastName", "email", "businessName"}

\* The body b carries the drafts d as C1 says.
CarriesDraft(b, d) ==
    /\ {"firstName", "lastName", "email"} \subseteq DOMAIN b
    /\ DOMAIN b \subseteq BodyKeys
    /\ b["firstName"] = d.firstName
    /\ b["lastName"] = d.lastName
    /\ b["email"] = d.email
    /\ ("businessName" \in DOMAIN b) <=> (d.businessName # "")
    /\ ("businessName" \in DOMAIN b) => (b["businessName"] = d.businessName)

\* C1: whenever handleAddCustomer is called, the JSON body of the POST it
\* sends has the key businessName if and only if the draft's businessName at
\* that moment is non-empty, then with the draft's value, and has firstName,
\* lastName and email as they are in the draft.
C1_BodyCarriesDraft ==
    [][\A h \in BagToSet(posting') : Submits(h) => CarriesDraft(h.body, Draft)]_vars

\* C1 witness: two POSTs are outstanding, one sent from a draft with an
\* empty businessName and without the key, one with businessName "b".
C1_Witness ==
    /\ \E h \in BagToSet(posting) :
          /\ h.closure.businessName = "" /\ h.closure.firstName = "a"
          /\ "businessName" \notin DOMAIN h.body
    /\ \E h \in BagToSet(posting) :
          /\ h.closure.businessName = "b"
          /\ "businessName" \in DOMAIN h.body /\ h.body["businessName"] = "b"

\* A handler whose POST had succeeded has just run to its end.
SubmitEnded == ev.kind \in {"submitted", "mutateFailed"}

C3_RevalidateOnlyAfterPostOk ==
    [][ /\ (revalidating' > revalidating) =>
              (PostSettles /\ ~ev'.resp.rejected /\ ev'.resp.ok)
        /\ (PostSettles /\ ~ev'.resp.rejected /\ ev'.resp.ok) =>
              (revalidating' = revalidating + 1)
        /\ (PostSettles /\ (ev'.resp.rejected \/ ~ev'.resp.ok)) =>
              (revalidating' = revalidating) ]_vars

\* C3 witness: a POST has just succeeded and its GET is outstanding.
C3_Witness ==
    ev.kind = "postOk" /\ ev.resp.ok /\ revalidating = 1 /\ ~loadPending

\* The step is the settling of a POST with a non-success response.
PostFails == PostSettles /\ ~ev'.resp.rejected /\ ~ev'.resp.ok

\* The message C4 gives a non-success response with this body.
C4_Message(body) ==
    IF Truthy(Message(body)) THEN Message(body).v ELSE "Failed to add customer"

\* C4 as stated: when a POST returns a non-success response, the handler
\* fails with the body's message if present and non-empty and with
\* "Failed to add customer" otherwise, requests no revalidation, and the
\* four drafts have the values they had when it was called and the dialog
\* is open.
C4_AsStated ==
    [][PostFails =>
          /\ ev'.alert = "Error: " \o C4_Message(ev'.resp.body)
          /\ revalidating' = revalidating
          /\ \E h \in BagToSet(posting) : Resumes(h) /\ Draft' = h.closure
          /\ open']_vars

\* C4 amended: when a POST returns a non-success response whose body is a
\* JSON object, the handler fails with the body's message if present and
\* non-empty and with "Failed to add customer" otherwise, requests no
\* revalidation, and itself changes neither the four drafts nor the
\* dialog's state: they stay as they are when the response arrives.
C4_FailureKeepsDraft ==
    [][(PostFails /\ ev'.resp.body.t = "object") =>
          /\ ev'.alert = "Error: " \o C4_Message(ev'.resp.body)
          /\ revalidating' = revalidating
          /\ Draft' = Draft
          /\ open' = open]_vars

\* C4 witness: "email already exists" has just been reported for a
\* non-empty draft, in the open dialog.
C4_Witness ==
    /\ ev.kind = "postFailed"
    /\ ev.resp = Response(FALSE, Obj([message |-> "email already exists"]))
    /\ ev.alert = "Error: email already exists"
    /\ Draft # EmptyDraft /\ open

\* A GET /api/customers has just settled with a response.
GetResponded ==
    ev.kind \in {"loaded", "submitted", "mutateFailed"} /\ ~ev.resp.rejected

\* C5: after a GET /api/customers returned a non-2xx response whose body
\* is JSON, useSWR's error is that body, with its message; after a 2xx
\* response useSWR's data is the body and there is no error.
C5_FetchOutcome ==
    (GetResponded /\ ev.resp.body.t # "notjson") =>
        IF ev.resp.ok
        THEN data = ev.resp.body /\ error = Undefined
        ELSE error = ev.resp.body /\ Message(error) = Message(ev.resp.body)

\* C5 witness: the first load returned 500 {"code": "internal_error",
\* "message": "db down"} and the error shown is "db down".
C5_Witness ==
    /\ ev.kind = "loaded" /\ ev.resp = Response(FALSE, DbDown)
    /\ Message(error) = Str("db down") /\ data = Undefined

\* C6: whenever the dialog has just been closed (setOpen(false) by the
\* handler, the Cancel button or onClose) the four drafts are empty.
C6_AsStated ==
    [][(open /\ ~open') => Draft' = EmptyDraft]_vars

StateLoading == ~Truthy(data) /\ ~Truthy(error)

StateReady == Truthy(data) /\ ~Truthy(error)

StateFailed == ~Truthy(data) /\ Truthy(error)

\* C7 as stated: useSWR is in exactly one of loading (no data, no error),
\* ready (data, no error) and failed (error, no data).
C7_AsStated == StateLoading \/ StateReady \/ StateFailed

\* A GET /api/customers has just settled.
GetSettled == ev.kind \in {"loaded", "submitted", "mutateFailed"}

\* The fetch of the response is one fetcher resolves.
FetchSucceeds(resp) == ~resp.rejected /\ resp.ok /\ resp.body.t # "notjson"

\* C7 amended: useSWR exposes neither data nor an error exactly while the
\* first fetch is outstanding; after a fetch that succeeded it exposes the
\* data and no error; after a fetch that failed it exposes the error, and
\* with it the data loaded before if the cache keeps stale data.
C7_StatesAfterFetch ==
    /\ StateLoading <=> loadPending
    /\ (GetSettled /\ FetchSucceeds(ev.resp)) => StateReady
    /\ (GetSettled /\ ~FetchSucceeds(ev.resp)) =>
          /\ Truthy(error)
          /\ Truthy(data) => keepStale

\* C7 witness: a revalidation has just failed after data was loaded, and
\* data and error are exposed together.
C7_Witness ==
    ev.kind = "mutateFailed" /\ Truthy(data) /\ Truthy(error)

GetsOutstanding == (IF loadPending THEN 1 ELSE 0) + revalidating

\* C8: at most one GET /api/customers is outstanding at any time.
C8_AsStated == GetsOutstanding <= 1

\* C9: of the first fetch, the revalidation fetches and the POSTs, at most
\* one is outstanding at any time.
C9_AsStated == GetsOutstanding + BagCardinality(posting) <= 1

\* C10: when the mutate() a handler awaits after its successful POST
\* rejects, the handler alerts the error, calls no setter (the four drafts
\* and the dialog's state stay as they are) and ends.
C10_RejectedMutateKeepsDraft ==
    [][(MutateSettles /\ ev'.kind = "mutateFailed") =>
          /\ ev'.alert = "Error: " \o Template(Message(error'))
          /\ ev'.closed = 0
          /\ Draft' = Draft
          /\ open' = open]_vars

\* C10 witness: a revalidation has just failed with "db down"; the dialog
\* is open with the draft that was posted, and Create can be clicked again.
C10_Witness ==
    /\ ev.kind = "mutateFailed" /\ ev.alert = "Error: db down"
    /\ open /\ Draft # EmptyDraft
    /\ InFlight < MaxInFlight

=============================================================================
